---- MODULE Spec2Model ----
(***************************************************************************)
(* plover-evdevd-rs: a keyboard interception daemon.                       *)
(*                                                                         *)
(* Threads: main (selects and grabs the keyboard, creates the uinput       *)
(* device, spawns the listeners, then blocks in join), listen_kb (hardware *)
(* listener) and listen_stdio (control listener).  Shared: the suppression *)
(* set                                                                     *)
(* (Arc<Mutex<HashSet<Key>>>) and the uinput device (Arc<Mutex<UInput>>).  *)
(* Lines of the control input are sequences of bytes, each byte a          *)
(* one-character string; raw input events are <<type, code, value>>.       *)
(***************************************************************************)
EXTENDS Integers, Sequences, FiniteSets, TLC

\* ------------------------------------------------------------------ bounds

\* Inputs of one run: the hardware events listen_kb reads (those of
\* ScenarioStream aside) and the control lines listen_stdio reads, together.
MaxInputs == 3

\* Entries of /dev/input/event* that Device::list() enumerates.
MaxDevs == 2

\* ------------------------------------------------------- program constants

UINPUT_NAME == "Plover"
EV_SYN == 0
EV_KEY == 1
KEY_A == 30
KEY_LEFTSHIFT == 42
KEY_RIGHTSHIFT == 54
KEY_LEFTCTRL == 29
KEY_RIGHTCTRL == 97
KEY_LEFTALT == 56
KEY_RIGHTALT == 100
KEY_LEFTMETA == 125
KEY_RIGHTMETA == 126
\* u16::MAX, the largest value content.parse() accepts for Key(pub u16)
U16Max == 65535

MODIFIER_KEYS ==
    { KEY_LEFTSHIFT, KEY_RIGHTSHIFT, KEY_LEFTCTRL, KEY_RIGHTCTRL,
      KEY_LEFTALT, KEY_RIGHTALT, KEY_LEFTMETA, KEY_RIGHTMETA }

\* ------------------------------------------------------------ event codec

\* enum Event { Syn, Key(Key, bool), Other(u16, u16, i32) }
EvSyn == [tag |-> "Syn", type |-> 0, code |-> 0, value |-> 0, pressed |-> FALSE]
EvKey(code, pressed) ==
    [tag |-> "Key", type |-> 0, code |-> code, value |-> 0, pressed |-> pressed]
EvOther(t, code, value) ==
    [tag |-> "Other", type |-> t, code |-> code, value |-> value, pressed |-> FALSE]

\* impl From<sys::input_event> for Event
Decode(raw) ==
    IF raw[1] = EV_SYN THEN EvSyn
    ELSE IF raw[1] = EV_KEY THEN EvKey(raw[2], raw[3] # 0)
    ELSE EvOther(raw[1], raw[2], raw[3])

\* Mutant of Encode: the Syn arm carries the type of the Key arm.
EncodeSynAsKey(ev) ==
    IF ev.tag = "Syn" THEN <<EV_KEY, 0, 0>>
    ELSE IF ev.tag = "Key" THEN <<EV_KEY, ev.code, IF ev.pressed THEN 1 ELSE 0>>
    ELSE <<ev.type, ev.code, ev.value>>

\* impl Into<sys::input_event> for Event
Encode(ev) ==
    IF ev.tag = "Syn" THEN <<EV_SYN, 0, 0>>
    ELSE IF ev.tag = "Key" THEN <<EV_KEY, ev.code, IF ev.pressed THEN 1 ELSE 0>>
    ELSE <<ev.type, ev.code, ev.value>>

\* ------------------------------------------------------------ text helpers

Digits == <<"0", "1", "2", "3", "4", "5", "6", "7", "8", "9">>
IsDigit(c) == \E i \in 1..10 : Digits[i] = c
DigitVal(c) == (CHOOSE i \in 1..10 : Digits[i] = c) - 1

\* A UTF-8 continuation byte (0b10xxxxxx): str::is_char_boundary is false on it.
IsCont(b) == b = "xA9"

RECURSIVE DigitsValue(_, _)
\* Accumulates decimal digits as <u16 as FromStr>; -1 on a non-digit or overflow.
DigitsValue(s, acc) ==
    IF s = <<>> THEN acc
    ELSE IF ~IsDigit(Head(s)) THEN -1
    ELSE LET n == acc * 10 + DigitVal(Head(s))
         IN IF n > U16Max THEN -1 ELSE DigitsValue(Tail(s), n)

\* str::parse::<u16>(): Ok(n) as n, Err(_) as -1.  An empty string, a lone sign,
\* a non-digit and an overflow are errors; one leading "+" is accepted.
ParseU16(s) ==
    IF s = <<>> THEN -1
    ELSE LET t == IF Head(s) = "+" THEN Tail(s) ELSE s
         IN IF t = <<>> THEN -1 ELSE DigitsValue(t, 0)

RECURSIVE Decimal(_)
\* The decimal digits of n, as Display for u16 prints them.
Decimal(n) ==
    IF n < 10 THEN <<Digits[n + 1]>>
    ELSE Append(Decimal(n \div 10), Digits[(n % 10) + 1])

\* writeln!(stdout, "{}{}", prefix, code)
ReportLine(key, pressed) ==
    <<IF pressed THEN "d" ELSE "u">> \o Decimal(key) \o <<"\n">>

RECURSIVE SplitFrom(_, _)
\* str::split(' '): the pieces between single spaces (empty pieces included);
\* cur is the piece being collected.
SplitFrom(s, cur) ==
    IF s = <<>> THEN <<cur>>
    ELSE IF Head(s) = " " THEN <<cur>> \o SplitFrom(Tail(s), <<>>)
    ELSE SplitFrom(Tail(s), Append(cur, Head(s)))

Split(s) == SplitFrom(s, <<>>)

\* &line[1..line.len() - 1] panics when 1 > len - 1, or when an end of the
\* range is not a char boundary.
ContentPanics(line) ==
    \/ Len(line) < 2
    \/ IsCont(line[2])
    \/ IsCont(line[Len(line)])

\* &line[1..line.len() - 1]: the bytes after the first, without the last one.
Content(line) == SubSeq(line, 2, Len(line) - 1)

\* ------------------------------------------------------------ environment

\* Raw events the physical keyboard delivers: key A down/up, left shift
\* down/up, a synchronization report and a non-key event (EV_MSC scan code).
HwEvents ==
    { <<EV_KEY, KEY_A, 1>>, <<EV_KEY, KEY_A, 0>>,
      <<EV_KEY, KEY_LEFTSHIFT, 1>>, <<EV_KEY, KEY_LEFTSHIFT, 0>>,
      <<EV_SYN, 0, 0>>, <<4, 4, 30>> }

\* The stream [Key(30,true), Syn, Key(30,false), Syn].
ScenarioStream ==
    << <<EV_KEY, KEY_A, 1>>, <<EV_SYN, 0, 0>>, <<EV_KEY, KEY_A, 0>>, <<EV_SYN, 0, 0>> >>

IsPrefix(s, t) == Len(s) <= Len(t) /\ SubSeq(t, 1, Len(s)) = s

\* What the hardware stream s counts for in MaxInputs: its length, except that
\* ScenarioStream and its prefixes are always explored.
HwCost(s) == IF IsPrefix(s, ScenarioStream) THEN 0 ELSE Len(s)

\* The runs explored: the inputs read so far fit in MaxInputs.
AllowedInputs(hw, lines) == HwCost(hw) + Len(lines) <= MaxInputs

\* Control lines ending in the line terminator.
TerminatedLines ==
    { <<"d", "3", "0", "\n">>,
      <<"u", "3", "0", "\n">>,
      <<"s", "3", "0", "\n">>,
      <<"s", "3", "0", " ", "3", "1", " ", "b", "a", "d", "t", "o", "k", "e", "n", "\n">>,
      <<"s", "\n">>,
      <<"x", "y", "z", "\n">>,
      <<"d", "3", "x", "\n">>,
      <<"xC3", "xA9", "\n">>,
      <<"\n">> }

\* Last lines of a control input that ends without a line terminator.
UnterminatedLines ==
    { <<"u", "3", "0">>,
      <<"s", "3", "0", " ", "3", "1">> }

\* ------------------------------------------------------------------ state

VARIABLES
    hwRead,          \* raw events listen_kb has read so far, in order
    kbPc,            \* listen_kb: "read", "lock_sk", "test", "report",
                     \*   "lock_ui", "write", "panicked"
    kbEvent,         \* listen_kb: the decoded event being processed (EvSyn
                     \*   while the loop variable does not exist)
    modifiers,       \* listen_kb: let mut modifiers = Vec::new()
    kbSeen,          \* the sets listen_kb's membership tests ran on, in order:
                     \*   [n, set] for the test of the n-th hardware event
    suppress_keys,   \* the shared HashSet<Key>
    skLock,          \* owner of the suppress_keys mutex: "free", "kb", "stdio"
    uiLock,          \* owner of the uinput mutex: "free", "kb", "stdio"
    uiPoisoned,      \* the uinput mutex was held by a thread that panicked
    vdev,            \* events written to the uinput device, in order:
                     \*   [src, n, raw], src "hw" (n-th hardware event) or
                     \*   "ctl" (n-th control line)
    out,             \* lines written to stdout, in order: [n, text]
    linesRead,       \* control lines listen_stdio has read so far, in order
    stdinEof,        \* the control input is at end of input
    stdioPc,         \* listen_stdio: "read", "dispatch", "inj_lock", "inj_key",
                     \*   "inj_syn", "s_build", "s_lock", "s_assign", "panicked"
    line,            \* listen_stdio: let mut line
    injPressed,      \* listen_stdio: the arm taken, 'd' (TRUE) or 'u' (FALSE)
    code,            \* listen_stdio: the code parsed in the 'd' / 'u' arm
    tokens,          \* listen_stdio: what content.split(' ') has yet to yield
    new_suppressed,  \* listen_stdio: let mut new_suppressed
    exited,          \* the process has ended
    mainPc,          \* main: "find", "grab", "uinput", "spawn_kb",
                     \*   "spawn_stdio", "join", "no_keyboard", "failed"
    devices,         \* the entries of /dev/input/event*, in glob order
    devName,         \* main: the name of dev, "" while dev does not exist
    grabbed,         \* the grabbed field of dev: it holds the exclusive grab
    codecIn,         \* a raw event handed to the event codec
    codecOut         \* what the codec made of it, <<>> before it ran

kbVars == <<hwRead, kbPc, kbEvent, modifiers, kbSeen>>
stdioVars ==
    <<linesRead, stdinEof, stdioPc, line, injPressed, code, tokens, new_suppressed>>
startVars == <<mainPc, devices, devName>>
codecVars == <<codecIn, codecOut>>
vars ==
    <<hwRead, kbPc, kbEvent, modifiers, kbSeen, suppress_keys, skLock, uiLock,
      uiPoisoned, vdev, out, linesRead, stdinEof, stdioPc, line,
      injPressed, code, tokens, new_suppressed, exited, mainPc, devices,
      devName, grabbed, codecIn, codecOut>>

Range(s) == { s[i] : i \in 1..Len(s) }

\* One entry of /dev/input/event*: whether Device::open succeeds on it, the
\* name libevdev reports and whether it has EV_KEY / KEY_A.
DeviceFiles ==
    { [name |-> "kbd0", has_a |-> TRUE, opens |-> TRUE],
      [name |-> "kbd1", has_a |-> TRUE, opens |-> TRUE],
      [name |-> UINPUT_NAME, has_a |-> TRUE, opens |-> TRUE],
      [name |-> "mouse", has_a |-> FALSE, opens |-> TRUE],
      [name |-> "busy", has_a |-> TRUE, opens |-> FALSE] }

DeviceLists == UNION { [1..n -> DeviceFiles] : n \in 0..MaxDevs }

\* The raw events the codec is exercised on: <<type, code, value>>.
RawEvents == { <<t, c, v>> : t \in {EV_SYN, EV_KEY, 2, 4},
                             c \in {0, 3, KEY_A, KEY_LEFTSHIFT},
                             v \in {-1, 0, 1, 2} }

\* The process as main starts: no device opened, no thread spawned, both
\* listeners yet to enter their loops, nothing written.
Start ==
    /\ mainPc = "find"
    /\ devName = ""
    /\ grabbed = FALSE
    /\ codecOut = <<>>
    /\ hwRead = <<>>
    /\ kbPc = "read"
    /\ kbEvent = EvSyn
    /\ modifiers = <<>>
    /\ kbSeen = <<>>
    /\ suppress_keys = {}
    /\ skLock = "free"
    /\ uiLock = "free"
    /\ uiPoisoned = FALSE
    /\ vdev = <<>>
    /\ out = <<>>
    /\ linesRead = <<>>
    /\ stdinEof = FALSE
    /\ stdioPc = "read"
    /\ line = <<>>
    /\ injPressed = FALSE
    /\ code = 0
    /\ tokens = <<>>
    /\ new_suppressed = {}
    /\ exited = FALSE

Init ==
    /\ Start
    /\ devices \in DeviceLists
    /\ codecIn = <<EV_SYN, 0, 0>>

\* listen_kb runs once main has spawned it (main.rs:126), listen_stdio once
\* main has spawned it (main.rs:128).
KbSpawned == mainPc \in {"spawn_stdio", "join"}
StdioSpawned == mainPc = "join"

\* -------------------------------------------------------------- listen_kb

\* Mutant of UpdateModifiers: a pressed modifier is pushed when the vector
\* does not hold it yet.
UpdateModifiersWhenAbsent(mods, key, pressed) ==
    IF key \notin MODIFIER_KEYS THEN mods
    ELSE IF pressed
         THEN IF key \notin Range(mods) THEN Append(mods, key) ELSE mods
         ELSE SelectSeq(mods, LAMBDA k : k # key)

\* The modifier bookkeeping of one Key event: a pressed modifier is pushed when
\* the vector already holds it, a released one is removed everywhere.
UpdateModifiers(mods, key, pressed) ==
    IF key \notin MODIFIER_KEYS THEN mods
    ELSE IF pressed
         THEN IF key \in Range(mods) THEN Append(mods, key) ELSE mods
         ELSE SelectSeq(mods, LAMBDA k : k # key)

\* Mutant of ShouldSuppress: || written for &&.
ShouldSuppressOr(set, key, mods) == key \in set \/ Len(mods) = 0

\* (*suppress_keys.lock().unwrap()).contains(&key) && modifiers.len() == 0
ShouldSuppress(set, key, mods) == key \in set /\ Len(mods) = 0

\* Mutant of WriteEvent: the event is put in front of the earlier ones.
WriteEventFront(dev, src, n, ev) ==
    <<[src |-> src, n |-> n, raw |-> Encode(ev)]>> \o dev

\* UInput::write_event: the event, encoded, goes to the device after all
\* earlier ones.  src and n record who wrote it and for which input.
WriteEvent(dev, src, n, ev) ==
    Append(dev, [src |-> src, n |-> n, raw |-> Encode(ev)])

\* dev.read_loop() yields the next event; a Key event updates modifiers.
KbRead ==
    /\ ~exited
    /\ KbSpawned
    /\ kbPc = "read"
    /\ \E raw \in HwEvents :
          /\ AllowedInputs(Append(hwRead, raw), linesRead)
          /\ hwRead' = Append(hwRead, raw)
          /\ kbEvent' = Decode(raw)
          /\ modifiers' =
                IF Decode(raw).tag = "Key"
                THEN UpdateModifiers(modifiers, Decode(raw).code, Decode(raw).pressed)
                ELSE modifiers
          /\ kbPc' = IF Decode(raw).tag = "Key" THEN "lock_sk" ELSE "lock_ui"
    /\ UNCHANGED <<kbSeen, suppress_keys, skLock, uiLock, uiPoisoned,  vdev, out, stdioVars, exited>>
    /\ UNCHANGED <<startVars, grabbed, codecVars>>

\* suppress_keys.lock().unwrap()
KbLockSk ==
    /\ ~exited
    /\ KbSpawned
    /\ kbPc = "lock_sk"
    /\ skLock = "free"
    /\ skLock' = "kb"
    /\ kbPc' = "test"
    /\ UNCHANGED <<hwRead, kbEvent, modifiers, kbSeen, suppress_keys, uiLock,
                   uiPoisoned, vdev, out, stdioVars, exited>>
    /\ UNCHANGED <<startVars, grabbed, codecVars>>

\* Mutant of KbTest: only the press of a suppressed key is diverted, its
\* release takes the forwarding branch.
KbTestPressOnly ==
    /\ ~exited
    /\ KbSpawned
    /\ kbPc = "test"
    /\ kbSeen' = Append(kbSeen, [n |-> Len(hwRead), set |-> suppress_keys])
    /\ skLock' = "free"
    /\ kbPc' = IF /\ ShouldSuppress(suppress_keys, kbEvent.code, modifiers)
                  /\ kbEvent.pressed
               THEN "report" ELSE "lock_ui"
    /\ UNCHANGED <<hwRead, kbEvent, modifiers, suppress_keys, uiLock, uiPoisoned,
                   vdev, out, stdioVars, exited>>
    /\ UNCHANGED <<startVars, grabbed, codecVars>>

\* Mutant of KbTest: the guard is bound to a name that lives to the end of the
\* loop body, so the branches run with the suppress_keys mutex held.
KbTestKeepsLock ==
    /\ ~exited
    /\ KbSpawned
    /\ kbPc = "test"
    /\ kbSeen' = Append(kbSeen, [n |-> Len(hwRead), set |-> suppress_keys])
    /\ skLock' = skLock
    /\ kbPc' = IF ShouldSuppress(suppress_keys, kbEvent.code, modifiers)
               THEN "report" ELSE "lock_ui"
    /\ UNCHANGED <<hwRead, kbEvent, modifiers, suppress_keys, uiLock, uiPoisoned,
                   vdev, out, stdioVars, exited>>
    /\ UNCHANGED <<startVars, grabbed, codecVars>>

\* The condition of the if: the membership test, then the guard (a temporary
\* of the condition) is dropped before either branch runs.
KbTest ==
    /\ ~exited
    /\ KbSpawned
    /\ kbPc = "test"
    /\ kbSeen' = Append(kbSeen, [n |-> Len(hwRead), set |-> suppress_keys])
    /\ skLock' = "free"
    /\ kbPc' = IF ShouldSuppress(suppress_keys, kbEvent.code, modifiers)
               THEN "report" ELSE "lock_ui"
    /\ UNCHANGED <<hwRead, kbEvent, modifiers, suppress_keys, uiLock, uiPoisoned,
                   vdev, out, stdioVars, exited>>
    /\ UNCHANGED <<startVars, grabbed, codecVars>>

\* writeln!(stdout, "{}{}", prefix, code).unwrap(); continue;
KbReport ==
    /\ ~exited
    /\ KbSpawned
    /\ kbPc = "report"
    /\ out' = Append(out, [n |-> Len(hwRead),
                           text |-> ReportLine(kbEvent.code, kbEvent.pressed)])
    /\ kbPc' = "read"
    /\ kbEvent' = EvSyn
    /\ UNCHANGED <<hwRead, modifiers, kbSeen, suppress_keys, skLock,
                   uiLock, uiPoisoned, vdev, stdioVars, exited>>
    /\ UNCHANGED <<startVars, grabbed, codecVars>>

\* writeln!(stdout, ..) returns Err (the report output is closed): unwrap
\* panics, no mutex is held; the unwinding drops dev.
KbReportFails ==
    /\ ~exited
    /\ KbSpawned
    /\ kbPc = "report"
    /\ kbPc' = "panicked"
    /\ kbEvent' = EvSyn
    /\ grabbed' = FALSE
    /\ UNCHANGED <<hwRead, modifiers, kbSeen, suppress_keys, skLock,
                   uiLock, uiPoisoned, vdev, out, stdioVars, exited>>
    /\ UNCHANGED <<startVars, codecVars>>

\* uinput.lock().unwrap(): a poisoned mutex makes unwrap panic, and the
\* unwinding drops dev.
KbLockUi ==
    /\ ~exited
    /\ KbSpawned
    /\ kbPc = "lock_ui"
    /\ uiLock = "free"
    /\ IF uiPoisoned
       THEN /\ kbPc' = "panicked" /\ uiLock' = uiLock /\ kbEvent' = EvSyn
            /\ grabbed' = FALSE
       ELSE /\ kbPc' = "write" /\ uiLock' = "kb" /\ kbEvent' = kbEvent
            /\ grabbed' = grabbed
    /\ UNCHANGED <<hwRead, modifiers, kbSeen, suppress_keys, skLock,
                   uiPoisoned, vdev, out, stdioVars, exited>>
    /\ UNCHANGED <<startVars, codecVars>>

\* (*uinput).write_event(event).unwrap() succeeds, then the guard is dropped.
KbWrite ==
    /\ ~exited
    /\ KbSpawned
    /\ kbPc = "write"
    /\ vdev' = WriteEvent(vdev, "hw", Len(hwRead), kbEvent)
    /\ kbPc' = "read"
    /\ uiLock' = "free"
    /\ kbEvent' = EvSyn
    /\ UNCHANGED <<hwRead, modifiers, kbSeen, suppress_keys, skLock, uiPoisoned,
                   out, stdioVars, exited>>
    /\ UNCHANGED <<startVars, grabbed, codecVars>>

\* Mutant of KbWriteFails: the guard is released before the result of
\* write_event is unwrapped, so the panic leaves the mutex clean.
KbWriteFailsClean ==
    /\ ~exited
    /\ KbSpawned
    /\ kbPc = "write"
    /\ kbPc' = "panicked"
    /\ uiLock' = "free"
    /\ uiPoisoned' = uiPoisoned
    /\ kbEvent' = EvSyn
    /\ UNCHANGED <<hwRead, modifiers, kbSeen, suppress_keys, skLock, vdev, out,
                   stdioVars, exited>>
    /\ grabbed' = FALSE
    /\ UNCHANGED <<startVars, codecVars>>

\* (*uinput).write_event(event) returns Err (libevdev_uinput_write_event < 0):
\* unwrap panics with the guard held, which poisons the mutex; the unwinding
\* drops dev, and Drop for Device ungrabs it.
KbWriteFails ==
    /\ ~exited
    /\ KbSpawned
    /\ kbPc = "write"
    /\ kbPc' = "panicked"
    /\ uiLock' = "free"
    /\ uiPoisoned' = TRUE
    /\ kbEvent' = EvSyn
    /\ UNCHANGED <<hwRead, modifiers, kbSeen, suppress_keys, skLock, vdev, out,
                   stdioVars, exited>>
    /\ grabbed' = FALSE
    /\ UNCHANGED <<startVars, codecVars>>

KbNext ==
    \/ KbRead \/ KbLockSk \/ KbTest \/ KbReport \/ KbReportFails
    \/ KbLockUi \/ KbWrite \/ KbWriteFails

\* ----------------------------------------------------------- listen_stdio

\* stdin.read_line(&mut line) returns a line with its terminator.
StdioReadLine ==
    /\ ~exited
    /\ StdioSpawned
    /\ stdioPc = "read"
    /\ ~stdinEof
    /\ \E l \in TerminatedLines :
          /\ AllowedInputs(hwRead, Append(linesRead, l))
          /\ line' = l
          /\ linesRead' = Append(linesRead, l)
    /\ stdioPc' = "dispatch"
    /\ UNCHANGED <<kbVars, suppress_keys, skLock, uiLock, uiPoisoned,  vdev, out, stdinEof, injPressed, code, tokens, new_suppressed,
                   exited>>
    /\ UNCHANGED <<startVars, grabbed, codecVars>>

\* stdin.read_line(&mut line) returns the rest of an input that ends without a
\* line terminator.
StdioReadLast ==
    /\ ~exited
    /\ StdioSpawned
    /\ stdioPc = "read"
    /\ ~stdinEof
    /\ \E l \in UnterminatedLines :
          /\ AllowedInputs(hwRead, Append(linesRead, l))
          /\ line' = l
          /\ linesRead' = Append(linesRead, l)
    /\ stdinEof' = TRUE
    /\ stdioPc' = "dispatch"
    /\ UNCHANGED <<kbVars, suppress_keys, skLock, uiLock, uiPoisoned,  vdev, out, injPressed, code, tokens, new_suppressed, exited>>
    /\ UNCHANGED <<startVars, grabbed, codecVars>>

\* stdin.read_line(&mut line) at end of input: Ok(0), line stays empty.
StdioReadEof ==
    /\ ~exited
    /\ StdioSpawned
    /\ stdioPc = "read"
    /\ line' = <<>>
    /\ stdinEof' = TRUE
    /\ stdioPc' = "dispatch"
    /\ UNCHANGED <<kbVars, suppress_keys, skLock, uiLock, uiPoisoned,  vdev, out, linesRead, injPressed, code, tokens, new_suppressed,
                   exited>>
    /\ UNCHANGED <<startVars, grabbed, codecVars>>

\* The end of a turn of the loop (or of the thread): the locals of the arm go
\* out of scope, and line.clear() runs before the next read_line.
StdioLocalsGone ==
    /\ line' = <<>>
    /\ injPressed' = FALSE
    /\ code' = 0
    /\ tokens' = <<>>
    /\ new_suppressed' = {}

\* The arm of match first_char a line selects, after content was sliced:
\* the next position of listen_stdio.
ArmOf(l) ==
    IF Head(l) \in {"d", "u"}
    THEN IF ParseU16(Content(l)) >= 0 THEN "inj_lock" ELSE "read"
    ELSE IF Head(l) = "s" THEN "s_build" ELSE "read"

\* if let Some(first_char) = line.chars().next() { let content = ...; match .. }
\* up to the first lock or loop of the arm taken.
StdioDispatch ==
    /\ ~exited
    /\ StdioSpawned
    /\ stdioPc = "dispatch"
    /\ IF line = <<>>
       THEN stdioPc' = "read" /\ StdioLocalsGone
       ELSE IF ContentPanics(line)
       THEN stdioPc' = "panicked" /\ StdioLocalsGone
       ELSE IF ArmOf(line) = "read"
       THEN stdioPc' = "read" /\ StdioLocalsGone
       ELSE /\ stdioPc' = ArmOf(line)
            /\ line' = line
            /\ injPressed' = (ArmOf(line) = "inj_lock" /\ Head(line) = "d")
            /\ code' = IF ArmOf(line) = "inj_lock" THEN ParseU16(Content(line))
                       ELSE 0
            /\ tokens' = IF ArmOf(line) = "s_build" THEN Split(Content(line))
                         ELSE <<>>
            /\ new_suppressed' = {}
    /\ UNCHANGED <<kbVars, suppress_keys, skLock, uiLock, uiPoisoned,  vdev, out, linesRead, stdinEof, exited>>
    /\ UNCHANGED <<startVars, grabbed, codecVars>>

\* 'd' / 'u': let mut uinput = uinput.lock().unwrap();
StdioInjLock ==
    /\ ~exited
    /\ StdioSpawned
    /\ stdioPc = "inj_lock"
    /\ uiLock = "free"
    /\ IF uiPoisoned
       THEN stdioPc' = "panicked" /\ uiLock' = uiLock /\ StdioLocalsGone
       ELSE /\ stdioPc' = "inj_key" /\ uiLock' = "stdio"
            /\ UNCHANGED <<line, injPressed, code, tokens, new_suppressed>>
    /\ UNCHANGED <<kbVars, suppress_keys, skLock, uiPoisoned, vdev, out,
                   linesRead, stdinEof, exited>>
    /\ UNCHANGED <<startVars, grabbed, codecVars>>

\* Mutant of StdioInjKey: the guard is a temporary of the write statement, so
\* the lock is released as soon as the Key event is written.
StdioInjKeyUnlock ==
    /\ ~exited
    /\ StdioSpawned
    /\ stdioPc = "inj_key"
    /\ vdev' = WriteEvent(vdev, "ctl", Len(linesRead), EvKey(code, injPressed))
    /\ stdioPc' = "inj_syn"
    /\ uiLock' = "free"
    /\ UNCHANGED <<kbVars, suppress_keys, skLock, uiPoisoned, out, linesRead,
                   stdinEof, line, injPressed, code, tokens, new_suppressed, exited>>
    /\ UNCHANGED <<startVars, grabbed, codecVars>>

\* (*uinput).write_event(Event::Key(Key(code), pressed)).unwrap(); succeeds.
StdioInjKey ==
    /\ ~exited
    /\ StdioSpawned
    /\ stdioPc = "inj_key"
    /\ vdev' = WriteEvent(vdev, "ctl", Len(linesRead), EvKey(code, injPressed))
    /\ stdioPc' = "inj_syn"
    /\ UNCHANGED <<kbVars, suppress_keys, skLock, uiLock, uiPoisoned, out,
                   linesRead, stdinEof, line, injPressed, code, tokens,
                   new_suppressed, exited>>
    /\ UNCHANGED <<startVars, grabbed, codecVars>>

\* (*uinput).syn().unwrap(); succeeds, then the guard is dropped at the end of
\* the arm.
StdioInjSyn ==
    /\ ~exited
    /\ StdioSpawned
    /\ stdioPc = "inj_syn"
    /\ vdev' = WriteEvent(vdev, "ctl", Len(linesRead), EvSyn)
    /\ stdioPc' = "read"
    /\ uiLock' = "free"
    /\ StdioLocalsGone
    /\ UNCHANGED <<kbVars, suppress_keys, skLock, uiPoisoned, out, linesRead,
                   stdinEof, exited>>
    /\ UNCHANGED <<startVars, grabbed, codecVars>>

\* write_event or syn returns Err in the 'd' / 'u' arm: unwrap panics with the
\* guard held, which poisons the mutex.
StdioInjFails ==
    /\ ~exited
    /\ StdioSpawned
    /\ stdioPc \in {"inj_key", "inj_syn"}
    /\ stdioPc' = "panicked"
    /\ uiLock' = "free"
    /\ uiPoisoned' = TRUE
    /\ StdioLocalsGone
    /\ UNCHANGED <<kbVars, suppress_keys, skLock, vdev, out, linesRead, stdinEof,
                   exited>>
    /\ UNCHANGED <<startVars, grabbed, codecVars>>

\* Mutant of StdioBuild: each parsed key is also inserted into the shared set
\* as it is parsed, outside the lock.
StdioBuildShared ==
    /\ ~exited
    /\ StdioSpawned
    /\ stdioPc = "s_build"
    /\ new_suppressed' =
          IF ParseU16(Head(tokens)) >= 0
          THEN new_suppressed \cup {ParseU16(Head(tokens))}
          ELSE new_suppressed
    /\ suppress_keys' =
          IF ParseU16(Head(tokens)) >= 0
          THEN suppress_keys \cup {ParseU16(Head(tokens))}
          ELSE suppress_keys
    /\ tokens' = Tail(tokens)
    /\ stdioPc' = IF Tail(tokens) = <<>> THEN "s_lock" ELSE "s_build"
    /\ UNCHANGED <<kbVars, skLock, uiLock, uiPoisoned,  vdev, out, linesRead, stdinEof, line, injPressed, code, exited>>
    /\ UNCHANGED <<startVars, grabbed, codecVars>>

\* 's': one turn of for substr in content.split(' '), inserting into the
\* local new_suppressed when the piece parses.
StdioBuild ==
    /\ ~exited
    /\ StdioSpawned
    /\ stdioPc = "s_build"
    /\ new_suppressed' =
          IF ParseU16(Head(tokens)) >= 0
          THEN new_suppressed \cup {ParseU16(Head(tokens))}
          ELSE new_suppressed
    /\ tokens' = Tail(tokens)
    /\ stdioPc' = IF Tail(tokens) = <<>> THEN "s_lock" ELSE "s_build"
    /\ UNCHANGED <<kbVars, suppress_keys, skLock, uiLock, uiPoisoned,  vdev, out, linesRead, stdinEof, line, injPressed, code, exited>>
    /\ UNCHANGED <<startVars, grabbed, codecVars>>

\* let mut suppress_keys = suppress_keys.lock().unwrap();
StdioSLock ==
    /\ ~exited
    /\ StdioSpawned
    /\ stdioPc = "s_lock"
    /\ skLock = "free"
    /\ skLock' = "stdio"
    /\ stdioPc' = "s_assign"
    /\ UNCHANGED <<kbVars, suppress_keys, uiLock, uiPoisoned, vdev, out,
                   linesRead, stdinEof, line, injPressed, code, tokens,
                   new_suppressed, exited>>
    /\ UNCHANGED <<startVars, grabbed, codecVars>>

\* Mutant of StdioAssign: the guard outlives the arm, so listen_stdio goes back
\* to read_line with the suppress_keys mutex held.
StdioAssignHolds ==
    /\ ~exited
    /\ StdioSpawned
    /\ stdioPc = "s_assign"
    /\ suppress_keys' = new_suppressed
    /\ skLock' = skLock
    /\ stdioPc' = "read"
    /\ StdioLocalsGone
    /\ UNCHANGED <<kbVars, uiLock, uiPoisoned, vdev, out, linesRead,
                   stdinEof, exited>>
    /\ UNCHANGED <<startVars, grabbed, codecVars>>

\* *suppress_keys = new_suppressed; then the guard is dropped.
StdioAssign ==
    /\ ~exited
    /\ StdioSpawned
    /\ stdioPc = "s_assign"
    /\ suppress_keys' = new_suppressed
    /\ skLock' = "free"
    /\ stdioPc' = "read"
    /\ StdioLocalsGone
    /\ UNCHANGED <<kbVars, uiLock, uiPoisoned, vdev, out, linesRead,
                   stdinEof, exited>>
    /\ UNCHANGED <<startVars, grabbed, codecVars>>

StdioNext ==
    \/ StdioReadLine \/ StdioReadLast \/ StdioReadEof \/ StdioDispatch
    \/ StdioInjLock \/ StdioInjKey \/ StdioInjSyn \/ StdioInjFails
    \/ StdioBuild \/ StdioSLock \/ StdioAssign

\* ------------------------------------------------------------------- main

\* Device::list(): the entries that open, in glob order; filter_map drops the
\* others.
DeviceList(files) == SelectSeq(files, LAMBDA f : f.opens)

\* Mutant of is_keyboard: the name is not looked at.
is_keyboardAnyName(dev) == dev.has_a

is_keyboard(dev) == dev.name # UINPUT_NAME /\ dev.has_a

\* Iterator::find: the first item the predicate accepts, NoDevice for None.
NoDevice == [name |-> "", has_a |-> FALSE, opens |-> FALSE]

RECURSIVE Find(_)
Find(devs) ==
    IF devs = <<>> THEN NoDevice
    ELSE IF is_keyboard(Head(devs)) THEN Head(devs)
    ELSE Find(Tail(devs))

find_first_keyboard(files) == Find(DeviceList(files))

\* let mut dev = find_first_keyboard();
MainFind ==
    /\ ~exited
    /\ mainPc = "find"
    /\ find_first_keyboard(devices) # NoDevice
    /\ devName' = find_first_keyboard(devices).name
    /\ mainPc' = "grab"
    /\ UNCHANGED <<kbVars, suppress_keys, skLock, uiLock, uiPoisoned, vdev,
                   out, stdioVars, exited, devices, grabbed, codecVars>>

\* .expect("No keyboards found") on None: main panics, the process ends.
MainFindFails ==
    /\ ~exited
    /\ mainPc = "find"
    /\ find_first_keyboard(devices) = NoDevice
    /\ mainPc' = "no_keyboard"
    /\ exited' = TRUE
    /\ UNCHANGED <<kbVars, suppress_keys, skLock, uiLock, uiPoisoned, vdev,
                   out, stdioVars, devices, devName, grabbed, codecVars>>

\* dev.grab().unwrap(); eprintln!("Grabbed {}", dev.name()).  Neither the
\* directory listing nor the name is read again: the model forgets both.
MainGrab ==
    /\ ~exited
    /\ mainPc = "grab"
    /\ grabbed' = TRUE
    /\ mainPc' = "uinput"
    /\ devices' = <<>>
    /\ devName' = ""
    /\ UNCHANGED <<kbVars, suppress_keys, skLock, uiLock, uiPoisoned, vdev,
                   out, stdioVars, exited, codecVars>>

\* libevdev_grab returns < 0 (another process holds the grab): unwrap panics,
\* the process ends.
MainGrabFails ==
    /\ ~exited
    /\ mainPc = "grab"
    /\ mainPc' = "failed"
    /\ exited' = TRUE
    /\ UNCHANGED <<kbVars, suppress_keys, skLock, uiLock, uiPoisoned, vdev,
                   out, stdioVars, devices, devName, grabbed, codecVars>>

\* UInput::from_device(&dev).unwrap(), Arc::new(Mutex::new(..)) for the device
\* and for HashSet::new().
MainUinput ==
    /\ ~exited
    /\ mainPc = "uinput"
    /\ mainPc' = "spawn_kb"
    /\ UNCHANGED <<kbVars, suppress_keys, skLock, uiLock, uiPoisoned, vdev,
                   out, stdioVars, exited, devices, devName, grabbed,
                   codecVars>>

\* libevdev_uinput_create_from_device returns < 0: unwrap panics, the
\* unwinding drops dev (Drop ungrabs it) and the process ends.
MainUinputFails ==
    /\ ~exited
    /\ mainPc = "uinput"
    /\ mainPc' = "failed"
    /\ grabbed' = FALSE
    /\ exited' = TRUE
    /\ UNCHANGED <<kbVars, suppress_keys, skLock, uiLock, uiPoisoned, vdev,
                   out, stdioVars, devices, devName, codecVars>>

\* thread::spawn(|| listen_kb(dev, uinput, suppress_keys));
MainSpawnKb ==
    /\ ~exited
    /\ mainPc = "spawn_kb"
    /\ mainPc' = "spawn_stdio"
    /\ UNCHANGED <<kbVars, suppress_keys, skLock, uiLock, uiPoisoned, vdev,
                   out, stdioVars, exited, devices, devName, grabbed,
                   codecVars>>

\* thread::spawn(|| listen_stdio(uinput_, suppress_keys_))
MainSpawnStdio ==
    /\ ~exited
    /\ mainPc = "spawn_stdio"
    /\ mainPc' = "join"
    /\ UNCHANGED <<kbVars, suppress_keys, skLock, uiLock, uiPoisoned, vdev,
                   out, stdioVars, exited, devices, devName, grabbed,
                   codecVars>>

\* thread::spawn(|| listen_stdio(..)).join().unwrap(): join returns once the
\* control listener has ended; it ends only by panicking (its loop has no
\* exit), join then yields Err, unwrap panics in main and the process ends.
MainJoin ==
    /\ ~exited
    /\ mainPc = "join"
    /\ stdioPc = "panicked"
    /\ exited' = TRUE
    /\ UNCHANGED <<kbVars, suppress_keys, skLock, uiLock, uiPoisoned, vdev,
                   out, stdioVars, startVars, grabbed, codecVars>>

MainNext ==
    \/ MainFind \/ MainFindFails \/ MainGrab \/ MainGrabFails
    \/ MainUinput \/ MainUinputFails \/ MainSpawnKb \/ MainSpawnStdio
    \/ MainJoin

Next == KbNext \/ StdioNext \/ MainNext

Spec == Init /\ [][Next]_vars

\* The three threads are OS threads: each keeps being scheduled while it has a
\* step to take.
FairSpec ==
    /\ Init /\ [][Next]_vars
    /\ WF_vars(KbNext)
    /\ WF_vars(StdioNext)
    /\ WF_vars(MainNext)

\* ----------------------------------------------------- the codec on its own

\* One raw event through From<input_event> and back through Into<input_event>,
\* as listen_kb does to an event it forwards (dev.read_loop() decodes,
\* write_event encodes).
CodecStep ==
    /\ codecOut = <<>>
    /\ codecOut' = Encode(Decode(codecIn))
    /\ UNCHANGED <<kbVars, suppress_keys, skLock, uiLock, uiPoisoned, vdev,
                   out, stdioVars, exited, startVars, grabbed, codecIn>>

CodecInit ==
    /\ Start
    /\ devices = <<>>
    /\ codecIn \in RawEvents

CodecSpec == CodecInit /\ [][CodecStep]_vars

\* ------------------------------------------------------- reading the logs

\* The entries of the device log written by one source, in order.
BySrc(dev, src) == SelectSeq(dev, LAMBDA e : e.src = src)

\* The raw events of a device log, in order.
Raws(dev) == [i \in 1..Len(dev) |-> dev[i].raw]

\* The texts of the report lines, in order.
Texts(o) == [i \in 1..Len(o) |-> o[i].text]

\* The n-th hardware event has reached the virtual device / the control output.
Forwarded(n) == \E p \in 1..Len(vdev) : vdev[p].src = "hw" /\ vdev[p].n = n
Reported(n) == \E p \in 1..Len(out) : out[p].n = n

\* Hardware events whose processing has finished.
HwDone == IF kbPc = "read" THEN Len(hwRead) ELSE Len(hwRead) - 1

\* -------------------------------------------------------------------- C1

\* The hardware event in flight meets the suppression condition: it is a Key
\* event, its key was in the suppression set its test ran on, and
\* Held-Modifiers is empty.
InFlightSuppressed ==
    /\ kbEvent.tag = "Key"
    /\ \E p \in 1..Len(kbSeen) :
          kbSeen[p].n = Len(hwRead) /\ kbEvent.code \in kbSeen[p].set
    /\ modifiers = <<>>

\* C1: every hardware event listen_kb finishes processing reaches exactly one
\* sink.  The step that finishes event n appends exactly one report line to the
\* control output and leaves the virtual device alone when the event is a Key
\* event whose key is in the suppression set with Held-Modifiers empty;
\* otherwise it appends the event to the virtual device and leaves the control
\* output alone.  Nothing was written for event n before that step, and no
\* other step of the program writes a report line or a hardware event.
C1_ExactlyOneSink ==
    [][ /\ (kbPc \in {"report", "write"} /\ kbPc' = "read") =>
              /\ ~Forwarded(Len(hwRead)) /\ ~Reported(Len(hwRead))
              /\ IF InFlightSuppressed
                 THEN /\ out' = Append(out,
                                  [n |-> Len(hwRead),
                                   text |-> ReportLine(hwRead[Len(hwRead)][2],
                                                       hwRead[Len(hwRead)][3] # 0)])
                      /\ vdev' = vdev
                 ELSE /\ vdev' = Append(vdev,
                                  [src |-> "hw", n |-> Len(hwRead),
                                   raw |-> Encode(Decode(hwRead[Len(hwRead)]))])
                      /\ out' = out
        /\ (out' # out \/ BySrc(vdev', "hw") # BySrc(vdev, "hw")) =>
              (kbPc \in {"report", "write"} /\ kbPc' = "read")
      ]_vars

\* C1 witness: one Key event was reported and another Key event was forwarded.
C1_Witness ==
    /\ \E p \in 1..Len(out) : out[p].text = <<"d", "3", "0", "\n">>
    /\ \E p \in 1..Len(vdev) : vdev[p].src = "hw" /\ vdev[p].raw[1] = EV_KEY

\* -------------------------------------------------------------------- C2

\* The modifier keys pressed and not yet released in the raw stream s.
PhysHeld(s) ==
    { k \in MODIFIER_KEYS :
        \E i \in 1..Len(s) :
            /\ s[i][1] = EV_KEY /\ s[i][2] = k /\ s[i][3] # 0
            /\ \A j \in (i + 1)..Len(s) :
                  ~(s[j][1] = EV_KEY /\ s[j][2] = k /\ s[j][3] = 0) }

\* C2: a Key event whose key is in the suppression set, arriving while a
\* modifier key is pressed and not yet released, is never diverted: it gets no
\* report line, and listen_kb does not take the report branch for it.
C2_ModifiedChordForwarded ==
    \A n \in 1..Len(hwRead) :
        ( /\ hwRead[n][1] = EV_KEY
          /\ PhysHeld(SubSeq(hwRead, 1, n - 1)) # {}
          /\ \E p \in 1..Len(kbSeen) :
                kbSeen[p].n = n /\ hwRead[n][2] \in kbSeen[p].set )
        => /\ ~Reported(n)
           /\ ~(n = Len(hwRead) /\ kbPc = "report")

\* -------------------------------------------------------------------- C3

\* C3: every Synchronization or Other event listen_kb has finished is on the
\* virtual device (a Synchronization event as a Synchronization event, an Other
\* event with its type, code and value) and none is ever reported, whatever
\* the suppression set is; and when the stream [Key(30,true), Syn,
\* Key(30,false), Syn] was processed with every membership test reading {30}
\* and nothing injected, the control output is exactly [d30, u30] and the
\* virtual device received exactly [Syn, Syn].
C3_SynAlwaysForwarded ==
    /\ \A n \in 1..Len(hwRead) :
          hwRead[n][1] # EV_KEY =>
             /\ ~Reported(n)
             /\ n <= HwDone =>
                   \E p \in 1..Len(vdev) :
                      /\ vdev[p].src = "hw" /\ vdev[p].n = n
                      /\ vdev[p].raw[1] = hwRead[n][1]
                      /\ hwRead[n][1] # EV_SYN => vdev[p].raw = hwRead[n]
    /\ ( /\ hwRead = ScenarioStream
         /\ kbPc = "read"
         /\ \A p \in 1..Len(kbSeen) : kbSeen[p].set = {KEY_A}
         /\ BySrc(vdev, "ctl") = <<>> )
       => /\ Texts(out) = << <<"d", "3", "0", "\n">>, <<"u", "3", "0", "\n">> >>
          /\ Raws(vdev) = << <<EV_SYN, 0, 0>>, <<EV_SYN, 0, 0>> >>

\* C3 witness: the scenario stream has been processed to its end with the
\* suppression set {30} read by both membership tests and nothing injected.
C3_Witness ==
    /\ hwRead = ScenarioStream
    /\ kbPc = "read"
    /\ Len(kbSeen) = 2
    /\ \A p \in 1..Len(kbSeen) : kbSeen[p].set = {KEY_A}
    /\ BySrc(vdev, "ctl") = <<>>

\* ------------------------------------------------ control lines, as stated

\* The command body of a control line: the characters after the first, up to
\* but excluding the line terminator.
Body(l) ==
    IF l[Len(l)] = "\n" THEN SubSeq(l, 2, Len(l) - 1) ELSE SubSeq(l, 2, Len(l))

\* Line l is the command tag followed by the key number c.
IsCommand(l, tag, c) == l # <<>> /\ l[1] = tag /\ c >= 0 /\ ParseU16(Body(l)) = c

\* The keys the well-formed space-separated tokens of a command body name.
KeysOf(body) == { ParseU16(t) : t \in Range(Split(body)) } \ {-1}

\* Line l is malformed or unrecognized: its first character is not d, u or s,
\* or it is a d / u line whose body is not an unsigned integer.
Malformed(l) ==
    /\ l # <<>>
    /\ \/ l[1] \notin {"d", "u", "s"}
       \/ l[1] \in {"d", "u"} /\ ParseU16(Body(l)) < 0

\* listen_stdio has finished the i-th control line and is back at read_line
\* (or past it, at end of input).
LineDone(i) ==
    \/ i < Len(linesRead)
    \/ i = Len(linesRead) /\ stdioPc = "read"
    \/ i = Len(linesRead) /\ stdioPc = "dispatch" /\ line = <<>>

\* The raw events the control lines i and i + 1 put on the virtual device.
InjectedBy(i) ==
    Raws(SelectSeq(vdev, LAMBDA e : e.src = "ctl" /\ e.n \in {i, i + 1}))

\* -------------------------------------------------------------------- C4

\* C4: once the lines d<code> and u<code>, read one after the other, have both
\* been processed, the events they injected are Key(code,true), Syn,
\* Key(code,false), Syn in that order, and (no s line having been read) the
\* suppression set is still the empty set of startup.
C4_PressThenRelease ==
    \A i \in 1..(Len(linesRead) - 1) : \A c \in {3, KEY_A} :
        ( /\ IsCommand(linesRead[i], "d", c)
          /\ IsCommand(linesRead[i + 1], "u", c)
          /\ LineDone(i + 1) )
        => /\ InjectedBy(i) =
                << <<EV_KEY, c, 1>>, <<EV_SYN, 0, 0>>,
                   <<EV_KEY, c, 0>>, <<EV_SYN, 0, 0>> >>
           /\ suppress_keys = {}

\* -------------------------------------------------------------------- C5

\* C5: once an s line has been processed, the suppression set is exactly the
\* set of keys its well-formed tokens name, whatever the set held before.
C5_SetReplacedExactly ==
    ( /\ linesRead # <<>>
      /\ linesRead[Len(linesRead)][1] = "s"
      /\ LineDone(Len(linesRead)) )
    => suppress_keys = KeysOf(Body(linesRead[Len(linesRead)]))

\* -------------------------------------------------------------------- C6

\* C6: the step by which listen_stdio leaves a malformed or unrecognized line
\* takes it back to read_line for the next line (no crash) and changes neither
\* the suppression set nor the virtual device output.
C6_MalformedDropped ==
    [][ (stdioPc = "dispatch" /\ Malformed(line) /\ stdioPc' # "dispatch")
        => (stdioPc' = "read" /\ suppress_keys' = suppress_keys /\ vdev' = vdev)
      ]_vars

\* -------------------------------------------------------------------- C7

\* The i-th control line is an s command (one that listen_stdio can slice).
IsSetLine(i) == linesRead[i][1] = "s" /\ ~ContentPanics(linesRead[i])

\* The complete set the s command on the i-th control line installs.
Installs(i) == KeysOf(Content(linesRead[i]))

\* The s commands whose replacement of the suppression set has taken place.
Installed == { i \in 1..Len(linesRead) : IsSetLine(i) /\ LineDone(i) }

\* The complete set in force: the one the last finished s command installed,
\* the empty set of startup when there is none.
InForce ==
    IF Installed = {} THEN {}
    ELSE Installs(CHOOSE i \in Installed : \A j \in Installed : j <= i)

\* The complete set the s command in progress installs (the set in force when
\* no s command is in progress).
Pending ==
    IF /\ linesRead # <<>>
       /\ IsSetLine(Len(linesRead))
       /\ ~LineDone(Len(linesRead))
    THEN Installs(Len(linesRead))
    ELSE InForce

\* C7: the set a membership test of listen_kb runs on is the complete set in
\* force before the s command in progress or the complete set that command
\* installs, never a partially built or mixed one.
C7_AtomicReplace ==
    [][ (kbPc = "test" /\ kbPc' # "test")
        => kbSeen'[Len(kbSeen')].set \in {InForce, Pending} ]_vars

\* C7 witness: listen_kb holds the lock and is about to test membership while
\* listen_stdio has finished building a different set and waits to install it.
C7_Witness ==
    /\ kbPc = "test"
    /\ stdioPc = "s_lock"
    /\ skLock = "kb"
    /\ new_suppressed # suppress_keys
    /\ new_suppressed = {KEY_A, 31}

\* -------------------------------------------------------------------- C8

\* C8: the two listeners are never both inside a write to the virtual device,
\* and whatever follows an injected Key event on the virtual device is the
\* Synchronization event injected by the same command: no forwarded hardware
\* event stands between the two.
C8_InjectionCritical ==
    /\ ~(kbPc = "write" /\ stdioPc \in {"inj_key", "inj_syn"})
    /\ \A p \in 1..(Len(vdev) - 1) :
          (vdev[p].src = "ctl" /\ vdev[p].raw[1] = EV_KEY)
          => /\ vdev[p + 1].src = "ctl"
             /\ vdev[p + 1].n = vdev[p].n
             /\ vdev[p + 1].raw[1] = EV_SYN

\* C8 witness: an injection has written its Key event and not yet its
\* Synchronization event while listen_kb waits for the lock with an event to
\* forward, after an earlier hardware event was forwarded.
C8_Witness ==
    /\ stdioPc = "inj_syn"
    /\ kbPc = "lock_ui"
    /\ uiLock = "stdio"
    /\ Len(vdev) >= 2
    /\ vdev[Len(vdev)].src = "ctl"
    /\ vdev[Len(vdev) - 1].src = "hw"

\* -------------------------------------------------------------------- C9

\* The sequence s of log entries runs in the order of its entries' inputs.
Increasing(s) == \A p \in 1..(Len(s) - 1) : s[p].n < s[p + 1].n
NonDecreasing(s) == \A p \in 1..(Len(s) - 1) : s[p].n <= s[p + 1].n

\* C9: the virtual device output interleaves two sequences that each keep
\* their own order.  Its hardware entries are the finished hardware events
\* that were not reported, each once, in the order they were read; its
\* injected entries follow the order in which their control lines were read,
\* each line's Key event before its Synchronization event.  The report lines
\* on the control output are the reported hardware events, each once, in the
\* order they were read.
C9_OrderPreserved ==
    LET hw == BySrc(vdev, "hw")
        ctl == BySrc(vdev, "ctl")
    IN /\ Increasing(hw)
       /\ \A p \in 1..Len(hw) : Decode(hw[p].raw) = Decode(hwRead[hw[p].n])
       /\ Increasing(out)
       /\ \A p \in 1..Len(out) :
             out[p].text = ReportLine(hwRead[out[p].n][2], hwRead[out[p].n][3] # 0)
       /\ { hw[p].n : p \in 1..Len(hw) } \cup { out[p].n : p \in 1..Len(out) }
             = 1..HwDone
       /\ { hw[p].n : p \in 1..Len(hw) } \cap { out[p].n : p \in 1..Len(out) } = {}
       /\ NonDecreasing(ctl)
       /\ \A p \in 1..Len(ctl) :
             /\ linesRead[ctl[p].n][1] \in {"d", "u"}
             /\ ctl[p].raw[1] = EV_SYN =>
                   (p > 1 /\ ctl[p - 1].n = ctl[p].n /\ ctl[p - 1].raw[1] = EV_KEY)

\* C9 witness: two report lines are on the control output, and on the virtual
\* device an injected event stands between two forwarded hardware events.
C9_Witness ==
    /\ Len(out) >= 2
    /\ \E p, q, r \in 1..Len(vdev) :
          /\ p < q /\ q < r
          /\ vdev[p].src = "hw" /\ vdev[q].src = "ctl" /\ vdev[r].src = "hw"

\* ------------------------------------------------------------------- C10

\* C10: once the control input is at end of input, the control listener ends,
\* main's join returns and the process ends.
C10_EofLeadsToExit == stdinEof ~> exited

\* ------------------------------------------------------------------- C11

\* C11 as stated: with listen_kb dead, a d / u line that reaches
\* uinput.lock() takes the lock and goes on to inject, as it does while
\* listen_kb is alive.
C11_ControlSurvives ==
    [][ (kbPc = "panicked" /\ stdioPc = "inj_lock" /\ stdioPc' # "inj_lock")
        => stdioPc' = "inj_key" ]_vars

\* C11, amended: the death of listen_kb does not end the process, and a failed
\* write to the virtual device leaves the uinput mutex poisoned.  With
\* listen_kb dead, an s line still replaces the suppression set by the keys it
\* names and listen_stdio returns to read_line; a d / u line is injected only
\* if the mutex is not poisoned (listen_kb died on the report output), and
\* makes listen_stdio panic at uinput.lock() if it is; the process ends only
\* by main's join on a dead listen_stdio.
C11_DegradedUntilInjection ==
    [][ /\ (kbPc # "panicked" /\ kbPc' = "panicked") => exited' = exited
        /\ (kbPc = "write" /\ kbPc' = "panicked") => uiPoisoned'
        /\ (kbPc = "report" /\ kbPc' = "panicked") => uiPoisoned' = uiPoisoned
        /\ (kbPc = "panicked" /\ stdioPc = "s_assign" /\ stdioPc' # "s_assign")
              => /\ stdioPc' = "read"
                 /\ suppress_keys' = Installs(Len(linesRead))
        /\ (kbPc = "panicked" /\ stdioPc = "inj_lock" /\ stdioPc' # "inj_lock")
              => stdioPc' = (IF uiPoisoned THEN "panicked" ELSE "inj_key")
        /\ (kbPc = "panicked" /\ ~exited /\ exited')
              => (stdioPc = "panicked" /\ mainPc = "join")
      ]_vars

\* C11 witness: listen_kb died on a failed write to the virtual device, an s
\* line was carried out, and the d line after it killed listen_stdio at the
\* poisoned mutex without injecting anything; the process has ended.
C11_Witness ==
    /\ kbPc = "panicked" /\ uiPoisoned
    /\ Len(linesRead) = 2
    /\ linesRead[1] = <<"s", "3", "0", "\n">>
    /\ linesRead[2] = <<"d", "3", "0", "\n">>
    /\ suppress_keys = {KEY_A}
    /\ stdioPc = "panicked"
    /\ BySrc(vdev, "ctl") = <<>>
    /\ exited

\* ------------------------------------------------------------------- C12

\* The positions of the device entries that can be opened, are not named
\* "Plover" and report KEY_A.
Qualifying ==
    { i \in 1..Len(devices) :
        devices[i].opens /\ devices[i].name # "Plover" /\ devices[i].has_a }

\* C12: the device main goes on with is the first entry, in enumeration order,
\* that opens, is not named "Plover" and reports KEY_A; entries that fail to
\* open are skipped.  When no entry qualifies the process has ended at
\* find_first_keyboard: nothing was grabbed, no listener ever took a step.
C12_FirstKeyboard ==
    /\ mainPc = "grab" =>
          /\ Qualifying # {}
          /\ \E i \in Qualifying :
                /\ \A j \in Qualifying : i <= j
                /\ devName = devices[i].name
    /\ mainPc = "no_keyboard" =>
          /\ Qualifying = {}
          /\ exited /\ ~grabbed
          /\ kbPc = "read" /\ hwRead = <<>>
          /\ stdioPc = "read" /\ linesRead = <<>>
          /\ vdev = <<>> /\ out = <<>>
    /\ (Qualifying = {} /\ devices # <<>>) => mainPc \in {"find", "no_keyboard"}

\* C12 witness: the virtual device of an earlier run is enumerated first and a
\* real keyboard second; the keyboard was selected.
C12_Witness ==
    /\ mainPc = "grab"
    /\ Len(devices) = 2
    /\ devices[1].name = "Plover" /\ devices[1].has_a /\ devices[1].opens
    /\ devices[2].name = "kbd1"
    /\ devName = "kbd1"

\* ------------------------------------------------------------------- C13

\* C13: a raw event that went through the codec (decoded on read, encoded on
\* write) comes out with the type, code and value it went in with.
C13_RoundTrip == codecOut # <<>> => codecOut = codecIn

\* ------------------------------------------------------------------- C14

\* C14: the body the arm of a control line works on is all of the line after
\* its first character, up to but excluding the line terminator and nothing
\* else: the code a d / u line injects is the number its body spells, and the
\* set an s line has built is the set of keys its body names, whether or not
\* the line (the last one of the input) ends in a terminator.
C14_BodyIsWholeLine ==
    /\ stdioPc \in {"inj_lock", "inj_key", "inj_syn"}
          => code = ParseU16(Body(line))
    /\ stdioPc \in {"s_lock", "s_assign"}
          => new_suppressed = KeysOf(Body(line))

\* ------------------------------------------------------------------- C15

\* C15: a listener that is at its blocking read (of the physical device, of
\* the control input) holds neither mutex, and listen_kb has released the
\* suppress_keys mutex by the time it writes the report line or locks and
\* writes to the virtual device.
C15_LockDiscipline ==
    /\ kbPc = "read" => (skLock # "kb" /\ uiLock # "kb")
    /\ stdioPc \in {"read", "dispatch"} => (skLock # "stdio" /\ uiLock # "stdio")
    /\ kbPc \in {"report", "lock_ui", "write"} => skLock # "kb"

\* C15 witness: listen_kb is about to write a report line while listen_stdio
\* holds the suppress_keys mutex for the next replacement.
C15_Witness ==
    /\ kbPc = "report"
    /\ skLock = "stdio"
    /\ stdioPc = "s_assign"

\* ------------------------------------------------------------------- C16

\* C16: once the virtual device exists or listen_kb has read an event, the
\* physical device is grabbed, and it is grabbed in every state in which the
\* process is running from then on, also after listen_kb has died.
C16_GrabbedThroughout ==
    ( /\ ~exited
      /\ \/ mainPc \in {"spawn_kb", "spawn_stdio", "join"}
         \/ hwRead # <<>> )
    => grabbed

\* ------------------------------------------------------------------- C17

\* C17: Held-Modifiers is empty in every reachable state, so whether a Key
\* event is diverted depends on membership in the suppression set alone:
\* listen_kb is on the report branch exactly when the key was in the set its
\* test ran on.
C17_ModifiersAlwaysEmpty ==
    /\ modifiers = <<>>
    /\ (kbPc \in {"report", "lock_ui", "write"} /\ kbEvent.tag = "Key")
          => /\ kbSeen # <<>>
             /\ kbSeen[Len(kbSeen)].n = Len(hwRead)
             /\ kbPc = "report" <=> kbEvent.code \in kbSeen[Len(kbSeen)].set

\* C17 witness: left shift was pressed and is still down, Held-Modifiers is
\* empty all the same, and the press of key A that followed was reported.
C17_Witness ==
    /\ Len(hwRead) = 2
    /\ hwRead[1] = <<EV_KEY, KEY_LEFTSHIFT, 1>>
    /\ hwRead[2] = <<EV_KEY, KEY_A, 1>>
    /\ modifiers = <<>>
    /\ Reported(2)

\* ------------------------------------------------------------------- C18

\* C18: no thread ever holds the suppress_keys mutex and the uinput mutex at
\* once, and every lock acquisition a listener has reached is followed by its
\* holding that lock, unless the process ends first or the uinput mutex was
\* poisoned by a failed write (the acquisition then returns at once and the
\* listener panics): neither listener blocks the other forever.
C18_DeadlockFree ==
    /\ [](\A t \in {"kb", "stdio"} : ~(skLock = t /\ uiLock = t))
    /\ (kbPc = "lock_sk") ~> ((kbPc = "test" /\ skLock = "kb") \/ exited)
    /\ (kbPc = "lock_ui")
          ~> \/ kbPc = "write" /\ uiLock = "kb"
             \/ kbPc = "panicked" /\ uiPoisoned
             \/ exited
    /\ (stdioPc = "inj_lock")
          ~> \/ stdioPc = "inj_key" /\ uiLock = "stdio"
             \/ stdioPc = "panicked" /\ uiPoisoned
             \/ exited
    /\ (stdioPc = "s_lock") ~> ((stdioPc = "s_assign" /\ skLock = "stdio") \/ exited)

\* C18 witness: the two listeners contend for a mutex: listen_kb waits at the
\* lock of the uinput device while listen_stdio holds it in mid-injection.
C18_Witness ==
    /\ kbPc = "lock_ui"
    /\ uiLock = "stdio"
    /\ stdioPc = "inj_syn"

\* ------------------------------------------------------------------- C19

\* The n-th hardware event is a press of key k and the m-th the first release
\* of k after it, and listen_kb has finished both.
NextRelease(n, m, k) ==
    /\ n < m /\ m <= HwDone
    /\ hwRead[n][1] = EV_KEY /\ hwRead[n][2] = k /\ hwRead[n][3] # 0
    /\ hwRead[m][1] = EV_KEY /\ hwRead[m][2] = k /\ hwRead[m][3] = 0
    /\ \A j \in (n + 1)..(m - 1) :
          ~(hwRead[j][1] = EV_KEY /\ hwRead[j][2] = k /\ hwRead[j][3] = 0)

\* The suppression set the membership test of the n-th hardware event ran on.
SeenAt(n) == UNION { kbSeen[p].set : p \in { q \in 1..Len(kbSeen) : kbSeen[q].n = n } }

\* C19 as stated: whatever s commands come in between, the first release
\* after a press of a key goes where the press went: forwarded if the press
\* was forwarded, reported if the press was reported.
C19_RoutingConsistent ==
    \A n, m \in 1..Len(hwRead) : \A k \in {KEY_A, KEY_LEFTSHIFT} :
        NextRelease(n, m, k)
        => /\ Forwarded(n) => Forwarded(m)
           /\ Reported(n) => Reported(m)

\* C19, amended: the first release after a press of a key goes where the press
\* went provided the key's membership in the suppression set is the same at
\* the two membership tests; an s command in between that changes the
\* membership of the key sends the release to the other sink.
C19_RoutingFollowsSet ==
    \A n, m \in 1..Len(hwRead) : \A k \in {KEY_A, KEY_LEFTSHIFT} :
        NextRelease(n, m, k)
        => IF (k \in SeenAt(n)) <=> (k \in SeenAt(m))
           THEN /\ Forwarded(n) <=> Forwarded(m)
                /\ Reported(n) <=> Reported(m)
           ELSE /\ Forwarded(n) <=> Reported(m)
                /\ Reported(n) <=> Forwarded(m)

\* C19 witness: key A went down and was forwarded, an s command then put it in
\* the suppression set, and its release was reported: the virtual device holds
\* a press of A without the release.
C19_Witness ==
    /\ Len(hwRead) = 2
    /\ NextRelease(1, 2, KEY_A)
    /\ Forwarded(1)
    /\ Reported(2)
    /\ KEY_A \notin SeenAt(1)
    /\ KEY_A \in SeenAt(2)

\* ------------------------------------------------------------------- C20

\* listen_stdio takes a step / listen_kb takes a step.
StdioStep == stdioVars' # stdioVars
KbStep == kbVars' # kbVars

\* listen_stdio is carrying out an s line / a d or u line.
InSetArm ==
    \/ stdioPc \in {"s_build", "s_lock", "s_assign"}
    \/ stdioPc = "dispatch" /\ line # <<>> /\ line[1] = "s"
InInjectArm ==
    \/ stdioPc \in {"inj_lock", "inj_key", "inj_syn"}
    \/ stdioPc = "dispatch" /\ line # <<>> /\ line[1] \in {"d", "u"}

\* C20: the suppression set changes only by the assignment that ends an s
\* line; until an s line has been read it is the empty set of startup, every
\* hardware event listen_kb has finished was forwarded and none reported.  A
\* step of listen_kb and a step of a d / u line leave the set unchanged; a step
\* of an s line writes nothing to the virtual device or the control output;
\* no step of listen_stdio changes Held-Modifiers.
C20_Frame ==
    /\ []( (\A i \in 1..Len(linesRead) : linesRead[i][1] # "s")
           => /\ suppress_keys = {}
              /\ out = <<>>
              /\ \A n \in 1..HwDone : Forwarded(n) )
    /\ [][ /\ suppress_keys' # suppress_keys
                => (stdioPc = "s_assign" /\ stdioPc' = "read")
           /\ KbStep => suppress_keys' = suppress_keys
           /\ (StdioStep /\ InInjectArm) => suppress_keys' = suppress_keys
           /\ (StdioStep /\ InSetArm) => (vdev' = vdev /\ out' = out)
           /\ StdioStep => modifiers' = modifiers
         ]_vars

\* C20 witness: a d line injected its two events, the s line after it replaced
\* the set and added nothing to the virtual device or the control output.
C20_Witness ==
    /\ Len(linesRead) = 2
    /\ linesRead[1] = <<"d", "3", "0", "\n">>
    /\ linesRead[2] = <<"s", "3", "0", "\n">>
    /\ LineDone(2)
    /\ suppress_keys = {KEY_A}
    /\ Raws(BySrc(vdev, "ctl")) = << <<EV_KEY, KEY_A, 1>>, <<EV_SYN, 0, 0>> >>
    /\ out = <<>>

====
